---- MODULE Spec2Model ----
(***************************************************************************)
(* Model of nursery/tmp_plan/src/requirements.rs: the Requirements data    *)
(* model (pre-image sets) and RequiredSignatures::sign_with_keymap, the    *)
(* dispatcher that resolves plan keys against a KeyMap, asks the           *)
(* SighashCache for the taproot digest, signs, and records signatures in   *)
(* SatisfactionMaterial.schnorr_sigs.                                      *)
(*                                                                         *)
(* Cryptography is modelled symbolically: a secret key, a digest, a tweak  *)
(* and a signature are terms, equal only when built the same way.  The     *)
(* events secp256k1 treats as statistically impossible (a zero tweaked     *)
(* key, two hashes colliding) therefore do not occur.                      *)
(***************************************************************************)
EXTENDS Integers, Sequences, FiniteSets, TLC

VARIABLES
    arg_keymap,         \* the key store of the signing pass
    arg_prevouts,       \* the previous outputs handed to the digest engine
    arg_input_index,    \* the input being signed
    arg_schnorr_sighashty,  \* the caller's Option<TapSighashType>
    schnorr_sigs,   \* auth_data.schnorr_sigs: descriptor key -> taproot::Signature
    sighash_cache,  \* memo entries of the SighashCache populated so far
    call,           \* the sign_with_keymap call that has just returned, if any
    aborted,        \* TRUE once a todo!() has panicked
    requirements,   \* a Requirements value (the four pre-image sets)
    last_insert,    \* the last HashSet::insert on a pre-image set
    pc,             \* concurrent callers: position of each caller
    borrow,         \* concurrent callers: holder of the &mut SighashCache
    filling,        \* concurrent callers: memo entries being populated, by caller
    ncalls          \* calls made on the material when every call has its own arguments

vars == <<arg_keymap, arg_prevouts, arg_input_index, arg_schnorr_sighashty,
          schnorr_sigs, sighash_cache, call, aborted,
          requirements, last_insert, pc, borrow, filling, ncalls>>

----------------------------------------------------------------------------
(* Bounds *)

MaxPlanKeys == 2
MaxDepth == 1
NumInputs == 2
MaxCalls == 2

----------------------------------------------------------------------------
(* Option<T> is a sequence of length at most one *)

NoneOpt == <<>>
Some(x) == <<x>>
OptionOf(S) == {NoneOpt} \cup {Some(x) : x \in S}
UnwrapOr(o, d) == IF o = NoneOpt THEN d ELSE o[1]

----------------------------------------------------------------------------
(* Input domains *)

DescKeys == {"D1", "D2"}
AssetKeys == {"A1", "A2"}
TapSighashTypes == {"Default", "All"}
TapNodeHashes == {"M1"}
TapLeafHashes == {"L1"}

(* The path from an asset key to the key it signs for: A1 is the signing key
   itself, A2 is its parent *)
HintOf(a) == IF a = "A1" THEN <<>> ELSE <<0>>

PlanKey == {[descriptor_key |-> d, asset_key |-> a, derivation_hint |-> HintOf(a)] :
              d \in DescKeys, a \in AssetKeys}

SeqsUpTo(S, n) == UNION {[1..k -> S] : k \in 0..n}

RequiredSignatures ==
    [variant : {"Legacy", "Segwitv0"}, keys : SeqsUpTo(PlanKey, 1)]
    \cup [variant : {"TapKey"}, plan_key : PlanKey,
          merkle_root : OptionOf(TapNodeHashes)]
    \cup [variant : {"TapScript"}, leaf_hash : TapLeafHashes,
          plan_keys : SeqsUpTo(PlanKey, MaxPlanKeys)]

(* The plan keys a requirement names, in order *)
KeysOf(req) ==
    CASE req.variant \in {"Legacy", "Segwitv0"} -> req.keys
      [] req.variant = "TapKey" -> <<req.plan_key>>
      [] req.variant = "TapScript" -> req.plan_keys

(* A secret scalar: where it came from and the child numbers applied *)
SecretOf(form, a) == [seed |-> <<form, a>>, path |-> <<>>]

(* DescriptorSecretKey: the three forms a KeyMap entry can take *)
SecretEntries(a) ==
    {[form |-> "Single", key |-> SecretOf("Single", a)],
     [form |-> "XPrv", xkey |-> [private_key |-> SecretOf("XPrv", a), depth |-> 0]],
     [form |-> "XPrv",
      xkey |-> [private_key |-> SecretOf("XPrv", a), depth |-> MaxDepth]],
     [form |-> "MultiXPrv"]}

KeyMap ==
    UNION {{m \in [S -> UNION {SecretEntries(a) : a \in AssetKeys}] :
              \A a \in S : m[a] \in SecretEntries(a)} : S \in SUBSET AssetKeys}

(* Prevouts::All(txouts): the number of previous outputs supplied *)
PrevoutsAll == {0, NumInputs}

----------------------------------------------------------------------------
(* Result values *)

OkR(v) == [kind |-> "Ok", val |-> v]
ErrR(e) == [kind |-> "Err", err |-> e]
PanicR == [kind |-> "Panic"]

----------------------------------------------------------------------------
(* Collaborators: bip32, the SighashCache, secp256k1 *)

(* Xpriv::ckd_priv: one derivation step; a key at the maximum depth has no
   children *)
ckd_priv(xkey, cnum) ==
    IF xkey.depth >= MaxDepth
    THEN ErrR("bip32")
    ELSE OkR([private_key |-> [seed |-> xkey.private_key.seed,
                               path |-> Append(xkey.private_key.path, cnum)],
              depth |-> xkey.depth + 1])

(* Xpriv::derive_priv: ckd_priv along the path, stopping at the first error *)
RECURSIVE derive_priv(_, _)
derive_priv(xkey, path) ==
    IF path = <<>> THEN OkR(xkey)
    ELSE LET step == ckd_priv(xkey, Head(path))
         IN IF step.kind = "Err" THEN step ELSE derive_priv(step.val, Tail(path))

(* Prevouts::check_all: Prevouts::All must hold one TxOut per input *)
PrevoutsOk(prevouts) == prevouts = NumInputs

(* SighashCache::taproot_key_spend_signature_hash *)
taproot_key_spend_signature_hash(input_index, prevouts, sighash_type) ==
    IF ~PrevoutsOk(prevouts) \/ input_index >= NumInputs
    THEN ErrR("Taproot")
    ELSE OkR([spend |-> "key", input_index |-> input_index,
              leaf_hash |-> NoneOpt, sighash_type |-> sighash_type])

(* SighashCache::taproot_script_spend_signature_hash *)
taproot_script_spend_signature_hash(input_index, prevouts, leaf_hash, sighash_type) ==
    IF ~PrevoutsOk(prevouts) \/ input_index >= NumInputs
    THEN ErrR("Taproot")
    ELSE OkR([spend |-> "script", input_index |-> input_index,
              leaf_hash |-> Some(leaf_hash), sighash_type |-> sighash_type])

(* The memo entries a digest computation populates on first use *)
MemoEntries == {"common_cache", "taproot_cache"}
MemoAfter(cache, sighash) == IF sighash.kind = "Ok" THEN cache \cup MemoEntries ELSE cache

(* XOnlyPublicKey::from(PublicKey::from_secret_key(secret_key)) *)
XOnlyPublicKeyOf(secret_key) == [x_only_pubkey_of |-> secret_key]

(* taproot::TapTweakHash::from_key_and_tweak *)
TapTweakHash(x_only_pubkey, merkle_root) ==
    [internal_key |-> x_only_pubkey, merkle_root |-> merkle_root]

(* Keypair::from_secret_key *)
KeypairOf(secret_key) == [secret_key |-> secret_key, tweak |-> NoneOpt]

(* Keypair::add_xonly_tweak *)
add_xonly_tweak(keypair, tweak) == [secret_key |-> keypair.secret_key, tweak |-> Some(tweak)]

(* Secp256k1::sign_schnorr_no_aux_rand *)
sign_schnorr_no_aux_rand(msg, keypair) == [msg |-> msg, keypair |-> keypair]

(* taproot::Signature *)
TaprootSignature(sig, sighash_type) == [signature |-> sig, sighash_type |-> sighash_type]

----------------------------------------------------------------------------
(* SatisfactionMaterial.schnorr_sigs: BTreeMap::insert *)

(* Mutant: an insert that keeps the entry already there (entry().or_insert) *)
Insert_KeepOld(m, k, v) ==
    [x \in (DOMAIN m) \cup {k} |-> IF x \in DOMAIN m THEN m[x] ELSE v]

Insert(m, k, v) == [x \in (DOMAIN m) \cup {k} |-> IF x = k THEN v ELSE m[x]]

EmptyMap == [x \in {} |-> 0]

----------------------------------------------------------------------------
(* sign_with_keymap *)

(* Mutant: a failed derivation falls back to the root key instead of
   returning the error *)
ResolveSecret_IgnoreDerivationError(entry, derivation_hint) ==
    CASE entry.form = "Single" -> OkR(entry.key)
      [] entry.form = "XPrv" ->
            LET d == derive_priv(entry.xkey, derivation_hint)
            IN IF d.kind = "Err" THEN OkR(entry.xkey.private_key)
               ELSE OkR(d.val.private_key)
      [] entry.form = "MultiXPrv" -> PanicR

(* match secret_key { Single | XPrv | MultiXPrv }: the secret scalar, a
   derivation error, or the panic of todo!() *)
ResolveSecret(entry, derivation_hint) ==
    CASE entry.form = "Single" -> OkR(entry.key)
      [] entry.form = "XPrv" ->
            LET d == derive_priv(entry.xkey, derivation_hint)
            IN IF d.kind = "Err" THEN ErrR("DerivationError")
               ELSE OkR(d.val.private_key)
      [] entry.form = "MultiXPrv" -> PanicR

(* What one call leaves behind *)
Outcome(result, sigs, inserted, cache) ==
    [result |-> result, schnorr_sigs |-> sigs, inserted |-> inserted,
     sighash_cache |-> cache]

(* The signing key of the TapKey branch: the resolved key, tweaked *)
TapKeyKeypair(secret_key, merkle_root) ==
    add_xonly_tweak(KeypairOf(secret_key),
                    TapTweakHash(XOnlyPublicKeyOf(secret_key), merkle_root))

(* Mutant: the TapScript branch tweaks as the TapKey branch does *)
TapScriptKeypair_Tweaked(secret_key) ==
    add_xonly_tweak(KeypairOf(secret_key),
                    TapTweakHash(XOnlyPublicKeyOf(secret_key), NoneOpt))

(* The signing key of the TapScript branch: the resolved key as it is *)
TapScriptKeypair(secret_key) == KeypairOf(secret_key)

(* Mutant: the override is ignored *)
SighashTypeOf_AlwaysDefault(schnorr_sighashty) == "Default"

(* The sighash type of a call: the override, or Default *)
SighashTypeOf(schnorr_sighashty) == UnwrapOr(schnorr_sighashty, "Default")

(* Mutant: signatures are recorded under the lookup key *)
RecordKey_AssetKey(plan_key) == plan_key.asset_key

(* Which key of the plan key the TapKey branch looks up, and which it
   records under *)
LookupKey(plan_key) == plan_key.asset_key
RecordKey(plan_key) == plan_key.descriptor_key

(* The TapKey branch after the digest is computed *)
TapKeyAfterDigest(plan_key, merkle_root, keymap, sighash, sighash_type, sigs, cache) ==
    IF LookupKey(plan_key) \notin DOMAIN keymap
    THEN Outcome(OkR(FALSE), sigs, <<>>, cache)
    ELSE LET r == ResolveSecret(keymap[LookupKey(plan_key)], plan_key.derivation_hint)
         IN IF r.kind # "Ok" THEN Outcome(r, sigs, <<>>, cache)
            ELSE LET keypair == TapKeyKeypair(r.val, merkle_root)
                     sig == sign_schnorr_no_aux_rand(sighash, keypair)
                     bitcoin_sig == TaprootSignature(sig, sighash_type)
                 IN Outcome(OkR(TRUE),
                            Insert(sigs, RecordKey(plan_key), bitcoin_sig),
                            <<<<RecordKey(plan_key), bitcoin_sig>>>>, cache)

(* Mutant: the key store is consulted before the digest is computed *)
SignTapKey_LookupFirst(req, input_index, keymap, prevouts, schnorr_sighashty, cache, sigs) ==
    LET sighash_type == UnwrapOr(schnorr_sighashty, "Default")
        sighash == taproot_key_spend_signature_hash(input_index, prevouts, sighash_type)
    IN IF req.plan_key.asset_key \notin DOMAIN keymap
       THEN Outcome(OkR(FALSE), sigs, <<>>, cache)
       ELSE IF sighash.kind = "Err"
       THEN Outcome(ErrR("SigHashTaproot"), sigs, <<>>, MemoAfter(cache, sighash))
       ELSE TapKeyAfterDigest(req.plan_key, req.merkle_root, keymap, sighash.val,
                              sighash_type, sigs, MemoAfter(cache, sighash))

(* The TapKey branch *)
SignTapKey(req, input_index, keymap, prevouts, schnorr_sighashty, cache, sigs) ==
    LET sighash_type == SighashTypeOf(schnorr_sighashty)
        sighash == taproot_key_spend_signature_hash(input_index, prevouts, sighash_type)
    IN IF sighash.kind = "Err"
       THEN Outcome(ErrR("SigHashTaproot"), sigs, <<>>, MemoAfter(cache, sighash))
       ELSE TapKeyAfterDigest(req.plan_key, req.merkle_root, keymap, sighash.val,
                              sighash_type, sigs, MemoAfter(cache, sighash))

(* The TapScript loop from plan key i on *)
RECURSIVE TapScriptLoop(_, _, _, _, _, _, _, _, _)
TapScriptLoop(plan_keys, i, keymap, sighash, sighash_type, sigs, modified, inserted, cache) ==
    IF i > Len(plan_keys) THEN Outcome(OkR(modified), sigs, inserted, cache)
    ELSE LET plan_key == plan_keys[i]
         IN IF LookupKey(plan_key) \notin DOMAIN keymap
            THEN TapScriptLoop(plan_keys, i + 1, keymap, sighash, sighash_type,
                               sigs, modified, inserted, cache)
            ELSE LET r == ResolveSecret(keymap[LookupKey(plan_key)],
                                        plan_key.derivation_hint)
                 IN IF r.kind # "Ok" THEN Outcome(r, sigs, inserted, cache)
                    ELSE LET keypair == TapScriptKeypair(r.val)
                             signature == sign_schnorr_no_aux_rand(sighash, keypair)
                             bitcoin_sig == TaprootSignature(signature, sighash_type)
                         IN TapScriptLoop(plan_keys, i + 1, keymap, sighash,
                                sighash_type,
                                Insert(sigs, RecordKey(plan_key), bitcoin_sig),
                                TRUE,
                                Append(inserted, <<RecordKey(plan_key), bitcoin_sig>>),
                                cache)

(* The TapScript branch *)
SignTapScript(req, input_index, keymap, prevouts, schnorr_sighashty, cache, sigs) ==
    LET sighash_type == SighashTypeOf(schnorr_sighashty)
        sighash == taproot_script_spend_signature_hash(input_index, prevouts,
                                                       req.leaf_hash, sighash_type)
    IN IF sighash.kind = "Err"
       THEN Outcome(ErrR("SigHashTaproot"), sigs, <<>>, MemoAfter(cache, sighash))
       ELSE TapScriptLoop(req.plan_keys, 1, keymap, sighash.val, sighash_type,
                          sigs, FALSE, <<>>, MemoAfter(cache, sighash))

(* The Legacy and Segwitv0 branch: todo!() *)
SignEcdsa(req, sigs, cache) == Outcome(PanicR, sigs, <<>>, cache)

(* RequiredSignatures::sign_with_keymap *)
sign_with_keymap(req, input_index, keymap, prevouts, schnorr_sighashty, cache, sigs) ==
    CASE req.variant \in {"Legacy", "Segwitv0"} -> SignEcdsa(req, sigs, cache)
      [] req.variant = "TapKey" ->
            SignTapKey(req, input_index, keymap, prevouts, schnorr_sighashty, cache, sigs)
      [] req.variant = "TapScript" ->
            SignTapScript(req, input_index, keymap, prevouts, schnorr_sighashty,
                          cache, sigs)

----------------------------------------------------------------------------------------------------------------------------------------------------
(* The signing pass: one caller tries requirement after requirement on one
   input, with one key store and one SatisfactionMaterial *)

NoCall == [result |-> [kind |-> "NoCall"]]

RequirementsDefault ==
    [signatures |-> [variant |-> "Legacy", keys |-> <<>>],
     sha256_images |-> {}, hash160_images |-> {},
     hash256_images |-> {}, ripemd160_images |-> {}]

NoInsert == [field |-> "none"]

Callers == {"t1", "t2"}

(* A caller that is not inside sign_with_keymap *)
Idle == [at |-> "idle"]

InitRest ==
    /\ schnorr_sigs = EmptyMap
    /\ sighash_cache = {}
    /\ call = NoCall
    /\ aborted = FALSE
    /\ requirements = RequirementsDefault
    /\ last_insert = NoInsert
    /\ pc = [t \in Callers |-> Idle]
    /\ borrow = NoneOpt
    /\ filling = {}
    /\ ncalls = 0

Init ==
    /\ arg_keymap \in KeyMap
    /\ arg_prevouts \in PrevoutsAll
    /\ arg_input_index \in 0..(NumInputs - 1)
    /\ arg_schnorr_sighashty \in OptionOf(TapSighashTypes)
    /\ InitRest

(* One whole call of sign_with_keymap *)
SignWithKeymap(req) ==
    /\ ~aborted
    /\ call = NoCall
    /\ LET out == sign_with_keymap(req, arg_input_index, arg_keymap, arg_prevouts,
                                   arg_schnorr_sighashty, sighash_cache, schnorr_sigs)
       IN /\ schnorr_sigs' = out.schnorr_sigs
          /\ sighash_cache' = out.sighash_cache
          /\ aborted' = (out.result.kind = "Panic")
          /\ call' = [req |-> req, before |-> schnorr_sigs, result |-> out.result,
                      inserted |-> out.inserted]
    /\ UNCHANGED <<arg_keymap, arg_prevouts, arg_input_index, arg_schnorr_sighashty,
                   requirements, last_insert, pc, borrow, filling, ncalls>>

(* The caller takes the Result; a panic leaves no caller to take it *)
TakeResult ==
    /\ call # NoCall
    /\ ~aborted
    /\ call' = NoCall
    /\ UNCHANGED <<arg_keymap, arg_prevouts, arg_input_index, arg_schnorr_sighashty, schnorr_sigs,
                   sighash_cache, aborted, requirements, last_insert, pc, borrow,
                   filling, ncalls>>

Next ==
    \/ \E req \in RequiredSignatures : SignWithKeymap(req)
    \/ TakeResult

Spec == Init /\ [][Next]_vars

----------------------------------------------------------------------------
(* Vocabulary of the properties: read off the call that has just returned *)

Returned == call.result.kind # "NoCall"

(* The plan key's lookup key is in the key store *)
Present(plan_key) == plan_key.asset_key \in DOMAIN arg_keymap

(* The key-store entry of a present plan key *)
EntryOf(plan_key) == arg_keymap[plan_key.asset_key]

(* bip32's answer for a plan key whose entry is a derivation root *)
Derived(plan_key) == derive_priv(EntryOf(plan_key).xkey, plan_key.derivation_hint)

(* The plan key is in the key store as a derivation root whose derivation
   along derivation_hint fails *)
DerivationFails(plan_key) ==
    /\ Present(plan_key)
    /\ EntryOf(plan_key).form = "XPrv"
    /\ Derived(plan_key).kind = "Err"

(* The plan key is in the key store as a raw secret, or as a derivation
   root that derives along derivation_hint *)
Resolves(plan_key) ==
    /\ Present(plan_key)
    /\ \/ EntryOf(plan_key).form = "Single"
       \/ EntryOf(plan_key).form = "XPrv" /\ Derived(plan_key).kind = "Ok"

(* The secret scalar of a plan key that resolves *)
SecretKeyOf(plan_key) ==
    IF EntryOf(plan_key).form = "Single" THEN EntryOf(plan_key).key
    ELSE Derived(plan_key).val.private_key

IsMultiXPrv(plan_key) == Present(plan_key) /\ EntryOf(plan_key).form = "MultiXPrv"

(* The first present plan key of a sequence that does not resolve, or 0 *)
FirstStop(plan_keys) ==
    LET stops == {i \in DOMAIN plan_keys :
                     Present(plan_keys[i]) /\ ~Resolves(plan_keys[i])}
    IN IF stops = {} THEN 0 ELSE CHOOSE i \in stops : \A j \in stops : i <= j

(* The digest engine computes the taproot digests of this pass: the
   key-spend and the script-spend request, of any sighash type and leaf *)
DigestComputed ==
    /\ \A ty \in TapSighashTypes :
          taproot_key_spend_signature_hash(arg_input_index, arg_prevouts, ty).kind = "Ok"
    /\ \A ty \in TapSighashTypes, leaf \in TapLeafHashes :
          taproot_script_spend_signature_hash(arg_input_index, arg_prevouts,
                                              leaf, ty).kind = "Ok"

(* The digest engine fails on the digest request of the requirement *)
DigestFails(req) ==
    LET ty == IF arg_schnorr_sighashty = NoneOpt THEN "Default"
              ELSE arg_schnorr_sighashty[1]
    IN IF req.variant = "TapKey"
       THEN taproot_key_spend_signature_hash(arg_input_index, arg_prevouts, ty).kind
               = "Err"
       ELSE taproot_script_spend_signature_hash(arg_input_index, arg_prevouts,
                                                req.leaf_hash, ty).kind = "Err"

IsTaproot(req) == req.variant \in {"TapKey", "TapScript"}

(* The sighash type the pass asks for *)
ModeUsed == IF arg_schnorr_sighashty = NoneOpt THEN "Default" ELSE arg_schnorr_sighashty[1]

(* The present plan keys of a sequence, in order *)
PresentKeys(plan_keys) == SelectSeq(plan_keys, Present)

(* The abstract keys the call recorded a signature under *)
Written == {call.inserted[i][1] : i \in DOMAIN call.inserted}

(* The last signature the call recorded under d *)
LastWritten(d) ==
    LET is == {i \in DOMAIN call.inserted : call.inserted[i][1] = d}
    IN call.inserted[CHOOSE i \in is : \A j \in is : j <= i][2]

(* The material is the material before the call with the call's insertions
   laid over it *)
MaterialIsBeforePlusWritten ==
    /\ DOMAIN schnorr_sigs = (DOMAIN call.before) \cup Written
    /\ \A d \in DOMAIN schnorr_sigs :
          schnorr_sigs[d] = IF d \in Written THEN LastWritten(d) ELSE call.before[d]

----------------------------------------------------------------------------
(* C1: for every variant, when none of the requirement's keys is in the key
   store, the call returns Ok(false) and leaves the material as it was. *)
C1_NoKeyNoSignature ==
    (Returned /\ \A i \in DOMAIN KeysOf(call.req) : ~Present(KeysOf(call.req)[i]))
        => (call.result = OkR(FALSE) /\ schnorr_sigs = call.before)

(* C2: for TapKey and TapScript, a digest failure is returned as
   SigHashTaproot with the material unchanged, whether or not the
   requirement's keys are in the key store. *)
C2_DigestErrorFirst ==
    (Returned /\ IsTaproot(call.req) /\ DigestFails(call.req))
        => (call.result = ErrR("SigHashTaproot") /\ schnorr_sigs = call.before)

C2_Witness ==
    /\ Returned /\ call.req.variant = "TapKey" /\ DigestFails(call.req)
    /\ Resolves(call.req.plan_key)
    /\ call.result = ErrR("SigHashTaproot")

(* The call looks a MultiXPrv entry up: the key of a TapKey call, or the
   first plan key of a TapScript call that does not resolve *)
LooksUpMultiXPrv ==
    /\ Returned /\ DigestComputed
    /\ \/ call.req.variant = "TapKey" /\ IsMultiXPrv(call.req.plan_key)
       \/ /\ call.req.variant = "TapScript"
          /\ FirstStop(call.req.plan_keys) # 0
          /\ IsMultiXPrv(call.req.plan_keys[FirstStop(call.req.plan_keys)])

(* C3: a Legacy or Segwitv0 requirement, or a looked-up MultiXPrv entry,
   makes the call return a tagged "not supported" error, never a panic. *)
C3_UnsupportedIsTaggedError ==
    (Returned /\ (call.req.variant \in {"Legacy", "Segwitv0"} \/ LooksUpMultiXPrv))
        => (call.result.kind = "Err" /\ call.result.err = "NotSupported")

----------------------------------------------------------------------------
(* A TapScript call whose digest is computed and whose present keys all
   resolve *)
TapScriptAllResolve ==
    /\ Returned /\ call.req.variant = "TapScript" /\ DigestComputed
    /\ \A i \in DOMAIN call.req.plan_keys :
          Present(call.req.plan_keys[i]) => Resolves(call.req.plan_keys[i])

(* The abstract keys of a sequence of plan keys are pairwise distinct *)
DistinctAbstractKeys(plan_keys) ==
    \A i, j \in DOMAIN plan_keys :
        plan_keys[i].descriptor_key = plan_keys[j].descriptor_key => i = j

(* C4: such a call returns true iff it produced a signature; it records one
   signature per present plan key, in order, each under that key's
   descriptor_key and none under an asset_key; absent plan keys are skipped
   and get no entry. *)
C4_TapScriptRecordsPresentKeys ==
    TapScriptAllResolve =>
        LET present == PresentKeys(call.req.plan_keys)
        IN /\ call.result.kind = "Ok"
           /\ call.result.val = (Len(call.inserted) > 0)
           /\ call.result.val = (Len(present) > 0)
           /\ Len(call.inserted) = Len(present)
           /\ \A i \in DOMAIN present : call.inserted[i][1] = present[i].descriptor_key
           /\ MaterialIsBeforePlusWritten
           /\ (DOMAIN schnorr_sigs) \cap AssetKeys = {}
           /\ Written = {present[i].descriptor_key : i \in DOMAIN present}
           /\ (DistinctAbstractKeys(present) /\ Written \cap DOMAIN call.before = {})
                 => Cardinality(DOMAIN schnorr_sigs)
                      = Cardinality(DOMAIN call.before) + Len(present)

(* Scenario B: two keys, only the second present *)
C4_Witness ==
    /\ TapScriptAllResolve
    /\ Len(call.req.plan_keys) = 2
    /\ ~Present(call.req.plan_keys[1]) /\ Present(call.req.plan_keys[2])
    /\ call.req.plan_keys[1].descriptor_key # call.req.plan_keys[2].descriptor_key
    /\ call.before = EmptyMap
    /\ call.result = OkR(TRUE)
    /\ DOMAIN schnorr_sigs = {call.req.plan_keys[2].descriptor_key}

----------------------------------------------------------------------------
(* One SatisfactionMaterial across calls that each bring their own
   arguments: requirement, key store, prevouts, input and sighash type are
   chosen afresh for every call *)

(* The caller holds no arguments between two calls *)
InitMix ==
    /\ arg_keymap = EmptyMap
    /\ arg_prevouts = NumInputs
    /\ arg_input_index = 0
    /\ arg_schnorr_sighashty = NoneOpt
    /\ InitRest

(* The caller is between two calls and has calls left *)
CallerReady == ~aborted /\ call = NoCall /\ ncalls < MaxCalls

(* One whole call of sign_with_keymap on the arguments of this call *)
SignWithKeymapArgs(req, input_index, keymap, prevouts, schnorr_sighashty) ==
    /\ CallerReady
    /\ LET out == sign_with_keymap(req, input_index, keymap, prevouts,
                                   schnorr_sighashty, sighash_cache, schnorr_sigs)
       IN /\ schnorr_sigs' = out.schnorr_sigs
          /\ sighash_cache' = out.sighash_cache
          /\ aborted' = (out.result.kind = "Panic")
          /\ call' = [req |-> req, before |-> schnorr_sigs, result |-> out.result,
                      inserted |-> out.inserted]
    /\ arg_keymap' = keymap
    /\ arg_prevouts' = prevouts
    /\ arg_input_index' = input_index
    /\ arg_schnorr_sighashty' = schnorr_sighashty
    /\ ncalls' = ncalls + 1
    /\ UNCHANGED <<requirements, last_insert, pc, borrow, filling>>

(* The caller takes the Result and lets go of the arguments; the material
   and the SighashCache stay *)
TakeResultArgs ==
    /\ call # NoCall
    /\ ~aborted
    /\ call' = NoCall
    /\ arg_keymap' = EmptyMap
    /\ arg_prevouts' = NumInputs
    /\ arg_input_index' = 0
    /\ arg_schnorr_sighashty' = NoneOpt
    /\ UNCHANGED <<schnorr_sigs, sighash_cache, aborted, requirements, last_insert,
                   pc, borrow, filling, ncalls>>

(* A call with any requirement and any arguments *)
SignWithKeymapAny ==
    /\ CallerReady
    /\ \E req \in RequiredSignatures, input_index \in 0..(NumInputs - 1),
          keymap \in KeyMap, prevouts \in PrevoutsAll,
          schnorr_sighashty \in OptionOf(TapSighashTypes) :
             SignWithKeymapArgs(req, input_index, keymap, prevouts, schnorr_sighashty)

NextMix ==
    \/ SignWithKeymapAny
    \/ TakeResultArgs

SpecMix == InitMix /\ [][NextMix]_vars

----------------------------------------------------------------------------
(* The call replaced signatures already in the material *)
OverwriteReplaces ==
    Returned =>
        /\ \A d \in Written \cap DOMAIN call.before : schnorr_sigs[d] = LastWritten(d)
        /\ Written \subseteq DOMAIN call.before
              => Cardinality(DOMAIN schnorr_sigs) = Cardinality(DOMAIN call.before)

(* C5: across calls that each bring their own requirement, input, key
   store, prevouts and sighash type, and return Ok(true), Ok(false), an
   error or a panic, no step removes an abstract key from the material; a
   signature recorded under a key that already has one replaces it and
   leaves the number of entries unchanged. *)
C5_AppendOverwriteOnly ==
    [][/\ (DOMAIN schnorr_sigs) \subseteq (DOMAIN schnorr_sigs')
       /\ OverwriteReplaces']_vars

(* A TapScript call that ends in DerivationError has first replaced a TapKey
   signature made by an earlier call for another input, with another secret
   key and another sighash type *)
C5_Witness ==
    /\ Returned
    /\ call.req.variant = "TapScript"
    /\ call.result = ErrR("DerivationError")
    /\ \E d \in Written \cap DOMAIN call.before :
          LET old == call.before[d]
              new == schnorr_sigs[d]
          IN /\ new # old
             /\ new = LastWritten(d)
             /\ old.signature.msg.spend = "key"
             /\ old.signature.msg.input_index # arg_input_index
             /\ new.signature.msg.input_index = arg_input_index
             /\ old.signature.keypair.secret_key # new.signature.keypair.secret_key
             /\ old.sighash_type # new.sighash_type
    /\ Cardinality(DOMAIN schnorr_sigs) = Cardinality(DOMAIN call.before)

----------------------------------------------------------------------------
(* A TapKey call whose digest is computed and whose key resolves *)
TapKeyResolves ==
    /\ Returned /\ call.req.variant = "TapKey" /\ DigestComputed
    /\ Resolves(call.req.plan_key)

(* C6: such a call returns Ok(true) and changes the material only at the
   plan key's descriptor_key; the signature there carries the sighash type
   of the digest: the caller's override, or Default. *)
C6_TapKeyRecordsOneEntry ==
    TapKeyResolves =>
        LET d == call.req.plan_key.descriptor_key
        IN /\ call.result = OkR(TRUE)
           /\ DOMAIN schnorr_sigs = (DOMAIN call.before) \cup {d}
           /\ \A x \in (DOMAIN schnorr_sigs) \ {d} : schnorr_sigs[x] = call.before[x]
           /\ call.before = EmptyMap => Cardinality(DOMAIN schnorr_sigs) = 1
           /\ schnorr_sigs[d].sighash_type = ModeUsed
           /\ schnorr_sigs[d].signature.msg.sighash_type = ModeUsed
           /\ schnorr_sigs[d].signature.msg.spend = "key"

(* A TapKey signature with the caller's override, beside an older entry *)
C6_Witness ==
    /\ TapKeyResolves
    /\ arg_schnorr_sighashty = Some("All")
    /\ call.result = OkR(TRUE)
    /\ (DOMAIN call.before) \ {call.req.plan_key.descriptor_key} # {}
    /\ schnorr_sigs[call.req.plan_key.descriptor_key].sighash_type = "All"

----------------------------------------------------------------------------
(* The key pair of a secret key with no tweak applied *)
Untweaked(secret_key) == [secret_key |-> secret_key, tweak |-> <<>>]

(* The key pair of a secret key tweaked by the hash of its x-only public key
   and a merkle root *)
Tweaked(secret_key, merkle_root) ==
    [secret_key |-> secret_key,
     tweak |-> <<[internal_key |-> [x_only_pubkey_of |-> secret_key],
                  merkle_root |-> merkle_root]>>]

(* C7: a TapKey signature is made with the resolved key tweaked by the hash
   of (x-only internal key, merkle_root); every TapScript signature is made
   with the resolved key untweaked; the two signing keys differ. *)
C7_TweakOnlyInTapKey ==
    /\ TapKeyResolves =>
          LET sk == SecretKeyOf(call.req.plan_key)
              sig == schnorr_sigs[call.req.plan_key.descriptor_key]
          IN /\ sig.signature.keypair = Tweaked(sk, call.req.merkle_root)
             /\ sig.signature.keypair # Untweaked(sk)
    /\ (Returned /\ call.req.variant = "TapScript") =>
          LET present == PresentKeys(call.req.plan_keys)
          IN \A i \in DOMAIN call.inserted :
                LET sk == SecretKeyOf(present[i])
                IN /\ call.inserted[i][2].signature.keypair = Untweaked(sk)
                   /\ \A m \in OptionOf(TapNodeHashes) :
                         call.inserted[i][2].signature.keypair # Tweaked(sk, m)

(* A TapScript signature laid over a TapKey signature, with a merkle root,
   of the same secret key *)
C7_Witness ==
    /\ Returned /\ call.req.variant = "TapScript"
    /\ \E i \in DOMAIN call.inserted :
          LET d == call.inserted[i][1]
              kp == call.inserted[i][2].signature.keypair
          IN /\ d \in DOMAIN call.before
             /\ kp.tweak = <<>>
             /\ call.before[d].signature.keypair.secret_key = kp.secret_key
             /\ call.before[d].signature.keypair.tweak # <<>>
             /\ call.before[d].signature.keypair.tweak[1].merkle_root # <<>>

----------------------------------------------------------------------------
(* The derivation of the key of a TapKey call, or of the first plan key of
   a TapScript call that does not resolve, was tried and failed *)
DerivationTriedAndFailed ==
    /\ Returned /\ DigestComputed
    /\ \/ call.req.variant = "TapKey" /\ DerivationFails(call.req.plan_key)
       \/ /\ call.req.variant = "TapScript"
          /\ FirstStop(call.req.plan_keys) # 0
          /\ DerivationFails(call.req.plan_keys[FirstStop(call.req.plan_keys)])

(* Some key of the taproot requirement of the call is in the key store as a
   derivation root whose derivation fails *)
HasFailingDerivation ==
    /\ Returned /\ IsTaproot(call.req)
    /\ \E i \in DOMAIN KeysOf(call.req) : DerivationFails(KeysOf(call.req)[i])

(* The first plan key of a sequence whose derivation fails, or 0 *)
FirstFailing(plan_keys) ==
    LET fails == {i \in DOMAIN plan_keys : DerivationFails(plan_keys[i])}
    IN IF fails = {} THEN 0 ELSE CHOOSE i \in fails : \A j \in fails : i <= j

(* C10 as stated: a present XPrv key whose derivation fails makes the call
   return DerivationError; in TapScript the material then holds the
   signatures of the resolvable plan keys before the first such key and
   nothing for that key or a later one. *)
C10_AnyFailingDerivationIsDerivationError ==
    HasFailingDerivation =>
        /\ call.result = ErrR("DerivationError")
        /\ call.req.variant = "TapScript" =>
              LET stop == FirstFailing(call.req.plan_keys)
                  before == SelectSeq(SubSeq(call.req.plan_keys, 1, stop - 1), Resolves)
              IN /\ Len(call.inserted) = Len(before)
                 /\ \A i \in DOMAIN before :
                       call.inserted[i][1] = before[i].descriptor_key

(* C10: a present XPrv key whose derivation fails never gives Ok.  When the
   digest is computed and that key is the first present plan key that does
   not resolve, the call returns DerivationError, and in TapScript the
   material holds the signatures of the present plan keys before it and
   nothing is recorded for it or for a later plan key.  When the digest
   fails the call returns SigHashTaproot with the material unchanged; when
   the first present plan key that does not resolve is a MultiXPrv entry
   the call panics. *)
C10_DerivationErrorStopsLoop ==
    /\ (HasFailingDerivation /\ DigestFails(call.req))
          => (call.result = ErrR("SigHashTaproot") /\ schnorr_sigs = call.before)
    /\ (HasFailingDerivation /\ LooksUpMultiXPrv) => call.result = PanicR
    /\ (Returned /\ IsTaproot(call.req)
        /\ \E i \in DOMAIN KeysOf(call.req) : DerivationFails(KeysOf(call.req)[i]))
          => call.result.kind # "Ok"
    /\ DerivationTriedAndFailed =>
          /\ call.result = ErrR("DerivationError")
          /\ MaterialIsBeforePlusWritten
          /\ call.req.variant = "TapKey" => call.inserted = <<>>
          /\ call.req.variant = "TapScript" =>
                LET stop == FirstStop(call.req.plan_keys)
                    before == PresentKeys(SubSeq(call.req.plan_keys, 1, stop - 1))
                IN /\ Len(call.inserted) = Len(before)
                   /\ \A i \in DOMAIN before :
                         /\ call.inserted[i][1] = before[i].descriptor_key
                         /\ call.inserted[i][2].signature.keypair.secret_key
                               = SecretKeyOf(before[i])

(* The first key is signed for, the second fails to derive: the first
   signature stays *)
C10_Witness ==
    /\ DerivationTriedAndFailed
    /\ call.req.variant = "TapScript"
    /\ Len(call.req.plan_keys) = 2
    /\ FirstStop(call.req.plan_keys) = 2
    /\ Len(call.inserted) = 1
    /\ call.result = ErrR("DerivationError")
    /\ call.inserted[1][1] \in DOMAIN schnorr_sigs
    /\ call.req.plan_keys[2].descriptor_key \notin DOMAIN schnorr_sigs

----------------------------------------------------------------------------
(* Requirements: the four pre-image sets *)

ImageFields == {"sha256_images", "hash160_images", "hash256_images", "ripemd160_images"}
Digests == {"h1", "h2"}

(* Mutant: the ripemd160 set is left out of the test *)
requires_hash_preimages_SkipsRipemd160(r) ==
    ~(r.sha256_images = {} /\ r.hash160_images = {} /\ r.hash256_images = {})

(* Requirements::requires_hash_preimages *)
requires_hash_preimages(r) ==
    ~(/\ r.sha256_images = {}
      /\ r.hash160_images = {}
      /\ r.hash256_images = {}
      /\ r.ripemd160_images = {})

(* HashSet::insert *)
HashSetInsert(set, h) == set \cup {h}

(* A fixed pass context for the specifications that do not sign *)
InitIdle ==
    /\ arg_keymap = EmptyMap
    /\ arg_prevouts = NumInputs
    /\ arg_input_index = 0
    /\ arg_schnorr_sighashty = NoneOpt
    /\ InitRest

(* The planner adds a required pre-image to one of the four sets *)
InsertImage(field, h) ==
    /\ requirements' = [requirements EXCEPT ![field] = HashSetInsert(@, h)]
    /\ last_insert' = [field |-> field, digest |-> h,
                       was_present |-> h \in requirements[field],
                       len_before |-> Cardinality(requirements[field]),
                       required_before |-> requires_hash_preimages(requirements)]
    /\ UNCHANGED <<arg_keymap, arg_prevouts, arg_input_index, arg_schnorr_sighashty,
                   schnorr_sigs, sighash_cache, call, aborted, pc, borrow, filling,
                   ncalls>>

NextReq == \E field \in ImageFields, h \in Digests : InsertImage(field, h)

SpecReq == InitIdle /\ [][NextReq]_vars

(* The union of the four sets, each digest tagged with its hash algorithm *)
AllImages == UNION {{<<f, h>> : h \in requirements[f]} : f \in ImageFields}

(* C9: requires_hash_preimages() is true iff the union of the four sets is
   non-empty; inserting a digest already in its set changes neither the
   set's cardinality nor requires_hash_preimages(); the default Requirements
   requires none. *)
C9_RequiresIffUnionNonEmpty ==
    /\ requires_hash_preimages(requirements) <=> AllImages # {}
    /\ (last_insert.field # "none" /\ last_insert.was_present) =>
          /\ Cardinality(requirements[last_insert.field]) = last_insert.len_before
          /\ requires_hash_preimages(requirements) = last_insert.required_before
    /\ requirements = RequirementsDefault => ~requires_hash_preimages(requirements)
    /\ ~requires_hash_preimages(RequirementsDefault)

(* A digest was inserted a second time *)
C9_Witness ==
    /\ last_insert.field # "none" /\ last_insert.was_present
    /\ Cardinality(requirements[last_insert.field]) = 1
    /\ requires_hash_preimages(requirements)

----------------------------------------------------------------------------
(* Callers signing inputs of one transaction through one SighashCache.
   sign_with_keymap takes the cache as &mut SighashCache: a caller enters
   only while no other call holds the borrow, and holds it until the call is
   over. *)

(* Mutant: the cache is taken by shared reference *)
BorrowShared(t) == TRUE

(* The exclusive borrow of the cache can be given to caller t *)
BorrowMut(t) == borrow = NoneOpt

Inside(t) == pc[t].at \in {"entered", "signing", "failed"}

UnchangedPass ==
    UNCHANGED <<arg_keymap, arg_prevouts, arg_input_index, arg_schnorr_sighashty,
                schnorr_sigs, call, aborted, requirements, last_insert, ncalls>>

(* Caller t calls sign_with_keymap *)
Enter(t, variant, n) ==
    /\ pc[t] = Idle
    /\ BorrowMut(t)
    /\ borrow' = Some(t)
    /\ pc' = [pc EXCEPT ![t] = [at |-> "entered", variant |-> variant, prevouts |-> n]]
    /\ UNCHANGED <<sighash_cache, filling>>
    /\ UnchangedPass

(* Legacy and Segwitv0: todo!() unwinds the caller and ends its borrow *)
Panic(t) ==
    /\ pc[t].at = "entered"
    /\ pc[t].variant \in {"Legacy", "Segwitv0"}
    /\ pc' = [pc EXCEPT ![t] = [at |-> "panicked"]]
    /\ borrow' = IF borrow = Some(t) THEN NoneOpt ELSE borrow
    /\ UNCHANGED <<sighash_cache, filling>>
    /\ UnchangedPass

TaprootEntered(t) ==
    pc[t].at = "entered" /\ pc[t].variant \in {"TapKey", "TapScript"}

(* The digest request fails before any memo entry is touched *)
DigestFail(t) ==
    /\ TaprootEntered(t)
    /\ ~PrevoutsOk(pc[t].prevouts)
    /\ pc' = [pc EXCEPT ![t].at = "failed"]
    /\ UNCHANGED <<sighash_cache, borrow, filling>>
    /\ UnchangedPass

(* First use of a memo entry: caller t finds it empty and starts to
   populate it *)
BeginFill(t, e) ==
    /\ TaprootEntered(t)
    /\ PrevoutsOk(pc[t].prevouts)
    /\ e \notin sighash_cache
    /\ <<t, e>> \notin filling
    /\ filling' = filling \cup {<<t, e>>}
    /\ UNCHANGED <<sighash_cache, pc, borrow>>
    /\ UnchangedPass

(* Caller t finishes populating a memo entry *)
EndFill(t, e) ==
    /\ <<t, e>> \in filling
    /\ filling' = filling \ {<<t, e>>}
    /\ sighash_cache' = sighash_cache \cup {e}
    /\ UNCHANGED <<pc, borrow>>
    /\ UnchangedPass

(* The digest is computed from the populated memo entries *)
DigestDone(t) ==
    /\ TaprootEntered(t)
    /\ PrevoutsOk(pc[t].prevouts)
    /\ MemoEntries \subseteq sighash_cache
    /\ pc' = [pc EXCEPT ![t].at = "signing"]
    /\ UNCHANGED <<sighash_cache, borrow, filling>>
    /\ UnchangedPass

(* The call returns and the borrow ends *)
Return(t) ==
    /\ pc[t].at \in {"signing", "failed"}
    /\ pc' = [pc EXCEPT ![t] = Idle]
    /\ borrow' = IF borrow = Some(t) THEN NoneOpt ELSE borrow
    /\ UNCHANGED <<sighash_cache, filling>>
    /\ UnchangedPass

NextConc ==
    \E t \in Callers :
        \/ \E variant \in {"Legacy", "Segwitv0", "TapKey", "TapScript"},
              n \in PrevoutsAll : Enter(t, variant, n)
        \/ Panic(t)
        \/ DigestFail(t)
        \/ \E e \in MemoEntries : BeginFill(t, e)
        \/ \E e \in MemoEntries : EndFill(t, e)
        \/ DigestDone(t)
        \/ Return(t)

SpecConc == InitIdle /\ [][NextConc]_vars

(* C8: no memo entry is populated by two calls at once, and while a call
   populates an entry no other call is inside sign_with_keymap to read it:
   the call that holds the cache holds it alone. *)
C8_NoRaceOnMemoPopulation ==
    /\ \A e \in MemoEntries : Cardinality({t \in Callers : <<t, e>> \in filling}) <= 1
    /\ \A f \in filling : \A t \in Callers \ {f[1]} : ~Inside(t)
    /\ \A t \in Callers : Inside(t) =>
          /\ borrow = Some(t)
          /\ \A u \in Callers \ {t} : ~Inside(u)

(* One caller populates a memo entry that an earlier call left empty, after
   another caller has been through a call *)
C8_Witness ==
    /\ \E f \in filling : \E t \in Callers \ {f[1]} : pc[t].at = "panicked"
    /\ sighash_cache # {}

====
